---------------------------- MODULE Spec2Model ----------------------------
(***************************************************************************)
(* Hesa Fredrik (se.tstorm.hesafredrik): the app (app.js, here             *)
(* src/unnamed/part_000), the VMA driver (driver.js, src/unnamed/part_001) *)
(* and the VMA device (drivers/vma/device.js).                             *)
(*                                                                         *)
(* Node runs one handler at a time up to its next await of a real          *)
(* asynchronous operation (HTTP fetch, setStoreValue, setCapabilityValue). *)
(* An action of this module is one such run-to-await segment of a handler. *)
(* An await of a value that is no pending promise (getCapabilityValue)     *)
(* lets no timer or I/O callback in and is not a segment boundary.         *)
(*                                                                         *)
(* Representation:                                                         *)
(*   - a geocode / area code is the sequence of its digits, "0114" is      *)
(*     <<0,1,1,4>>; a missing or empty geocode is << >> (both are falsy);  *)
(*   - a device is identified by device.getData().id, its area code;       *)
(*   - a missing info/area array and an empty one are both << >> (the code *)
(*     treats them alike: no match, no language info);                     *)
(*   - a language tag is the sequence of its characters;                   *)
(*   - the capability value null is the string NULL.                       *)
(***************************************************************************)
EXTENDS Integers, Sequences, FiniteSets, TLC

\* ------------------------------------------------------------------ bounds
\* longest alert list one REST response carries in the model
MaxBatch == 2
\* most 100 ms "device turned on" timers pending at once
MaxEnableTimers == 1
\* most AlertInfos of a drawn alert, most AreaRefs of one AlertInfo
MaxInfos == 2
MaxAreas == 1
\* most failures in a row of one stream where streams and devices interleave
MaxFailures == 2

\* --------------------------------------------------------- CONFIG (app.js)
SSE_RECONNECT_DELAY == 5000
MAX_BACKOFF_DELAY == 60000
SSE_MAX_AGE == 600000
\* retryCount cap of scheduleReconnection
MAX_RETRY == 10
\* failures that open the circuit breaker
FAILURE_THRESHOLD == 5
\* time that passes in one Tick of the model's clock (ms)
TickMs == SSE_MAX_AGE \div 2

NULL == "null"
\* createdAt = null
NoTime == 0 - 1

SSETypes == {"production", "test"}

\* ------------------------------------------------------------- area codes
T00 == <<0, 0>>
T01 == <<0, 1>>
T0114 == <<0, 1, 1, 4>>
T0180 == <<0, 1, 8, 0>>
T1480 == <<1, 4, 8, 0>>
AllDevices == {T00, T01, T0114, T0180, T1480}

\* String.prototype.startsWith on sequences
StartsWith(s, p) ==
    /\ Len(p) <= Len(s)
    /\ SubSeq(s, 1, Len(p)) = p

Range(s) == {s[i] : i \in 1..Len(s)}

Min(a, b) == IF a <= b THEN a ELSE b

\* ---------------------------------------------------------- geocode match
\* mutant: the prefix rule applied in both directions
AreaMatchesSymmetric(alertGeocode, deviceAreaCode) ==
    /\ alertGeocode # << >>
    /\ \/ alertGeocode = deviceAreaCode
       \/ StartsWith(deviceAreaCode, alertGeocode)
       \/ StartsWith(alertGeocode, deviceAreaCode)

\* mutant: exact match only, no county rule
AreaMatchesExactly(alertGeocode, deviceAreaCode) ==
    /\ alertGeocode # << >>
    /\ alertGeocode = deviceAreaCode

\* the callback of info.area.some(...)
AreaMatches(alertGeocode, deviceAreaCode) ==
    IF alertGeocode = << >> THEN FALSE
    ELSE IF alertGeocode = deviceAreaCode THEN TRUE
    ELSE IF Len(alertGeocode) = 2 /\ Len(deviceAreaCode) = 4
         THEN StartsWith(deviceAreaCode, alertGeocode)
         ELSE FALSE

\* the callback of alertSource.filter(...)
AlertMatches(alert, deviceAreaCode) ==
    \E i \in 1..Len(alert.info) :
        \E j \in 1..Len(alert.info[i].area) :
            AreaMatches(alert.info[i].area[j].geocode, deviceAreaCode)

\* alertSource.filter(...) for one device
RECURSIVE FilterAlerts(_, _)
FilterAlerts(alertSource, deviceAreaCode) ==
    IF alertSource = << >> THEN << >>
    ELSE IF AlertMatches(Head(alertSource), deviceAreaCode)
         THEN <<Head(alertSource)>> \o FilterAlerts(Tail(alertSource), deviceAreaCode)
         ELSE FilterAlerts(Tail(alertSource), deviceAreaCode)

\* relevantAlerts of one device: "00" receives every alert of its source
RelevantAlerts(alertSource, deviceAreaCode) ==
    IF deviceAreaCode = T00 THEN alertSource
    ELSE FilterAlerts(alertSource, deviceAreaCode)

\* ------------------------------------------------------------------ alerts
SV == <<"s", "v", "-", "S", "E">>
EN == <<"e", "n", "-", "U", "S">>
\* this.homey.i18n.getLanguage() of the modelled Homey
HomeyLanguage == <<"e", "n">>

Area(code) == [geocode |-> code]
Info(lang, desc, ev, codes) ==
    [language |-> lang, description |-> desc, event |-> ev,
     area |-> [i \in 1..Len(codes) |-> Area(codes[i])]]
Alert(id, type, st, infos) ==
    [incidents |-> id, msgType |-> type, status |-> st, info |-> infos]
\* no alert (a run that is not inside the alert loop)
NoAlert == Alert("", "", "", << >>)

\* an incident of county 01, in two languages, and its cancellation
A1 == Alert("i1", "Alert", "Actual",
            <<Info(SV, "m1", "", <<T01>>), Info(EN, "e1", "", <<T01>>)>>)
K1 == Alert("i1", "Cancel", "Actual",
            <<Info(SV, "m1", "", <<T01>>), Info(EN, "e1", "", <<T01>>)>>)
\* a system test alert of municipality 0114
T2 == Alert("i2", "Alert", "Test", <<Info(SV, "", "t2", <<T0114>>)>>)
\* an alert that carries no info at all, and its cancellation
E3 == Alert("i3", "Alert", "Actual", << >>)
K3 == Alert("i3", "Cancel", "Actual", << >>)

\* String.prototype.toLowerCase, on the characters the tags use
ToLowerChar(c) ==
    CASE c = "S" -> "s"
      [] c = "E" -> "e"
      [] c = "U" -> "u"
      [] OTHER -> c
ToLowerCase(s) == [i \in 1..Len(s) |-> ToLowerChar(s[i])]

\* infoArray.find(i => i.language.toLowerCase().startsWith(lang)), as << >> or <<info>>
RECURSIVE FindLanguage(_, _)
FindLanguage(infoArray, lang) ==
    IF infoArray = << >> THEN << >>
    ELSE IF StartsWith(ToLowerCase(Head(infoArray).language), lang)
         THEN <<Head(infoArray)>>
         ELSE FindLanguage(Tail(infoArray), lang)

\* getBestLanguageInfo: << >> is null, <<info>> the chosen info
getBestLanguageInfo(infoArray) ==
    IF infoArray = << >> THEN << >>
    ELSE IF FindLanguage(infoArray, ToLowerCase(HomeyLanguage)) # << >>
         THEN FindLanguage(infoArray, ToLowerCase(HomeyLanguage))
    ELSE IF FindLanguage(infoArray, <<"s", "v">>) # << >>
         THEN FindLanguage(infoArray, <<"s", "v">>)
    ELSE <<Head(infoArray)>>

\* formatAlertMessage: description || event || 'VMA Alert'
formatAlertMessage(alertInfo, status) ==
    IF alertInfo.description # "" THEN alertInfo.description
    ELSE IF alertInfo.event # "" THEN alertInfo.event
    ELSE "VMA Alert"

\* the methods class MyDriver defines for the device to call
DriverMethods == {"triggerVMA"}

\* ------------------------------------------------------------ state
VARIABLES
    \* environment, fixed by Init
    alertPool,          \* the alerts a REST endpoint may return
    pairable,           \* the devices the user may pair
    \* Homey
    driverReady,        \* homey.drivers.getDriver('vma') succeeds
    registered,         \* driver.getDevices(), in registration order
    onoff,              \* capability onoff of each device
    test_mode,          \* settings.test_mode of each device
    \* MyDevice
    incidents,          \* this.incidents of each device
    alarm_generic,      \* capability alarm_generic
    message,            \* capability message
    notified,           \* the open incidents of each device for which the
                        \* vma_trigger card has been triggered since they
                        \* were stored
    closed,             \* the incidents a Cancel has deleted from
                        \* this.incidents of each device
    settings,           \* the onSettings handler in flight: [device, pc]
    enableTimers,       \* pending 100 ms timers of the onoff listener
    \* HesaFredrikApp
    initTimer,          \* the 2000 ms timer of onInit is pending
    uninit,             \* app.onUninit has run
    sse,                \* productionSSE and testSSE
    sseHealthCheckInterval,
    fetchInProgress,    \* _fetchInProgress
    fetchDebounceTimer, \* _fetchDebounceTimer is not null
    debounceTimers,     \* debounce timeouts set and neither cleared nor fired
    apiFailureCount,    \* _apiFailureCount
    apiCircuitOpen,     \* _apiCircuitOpen
    circuitResetTimers, \* pending 300000 ms reset timeouts
    run,                \* the executing fetchAndDistributeAlerts, if any
    \* what the last step did
    ev,
    \* the geocode matcher applied to drawn inputs
    mTarget, mAlert, mResult

envVars == <<alertPool, pairable>>
homeyVars == <<driverReady, registered, onoff, test_mode>>
deviceVars == <<incidents, alarm_generic, message, notified, closed>>
sseVars == <<sse, sseHealthCheckInterval>>
debounceVars == <<fetchDebounceTimer, debounceTimers>>
breakerVars == <<apiFailureCount, apiCircuitOpen, circuitResetTimers>>
runVars == <<fetchInProgress, run>>
matchVars == <<mTarget, mAlert, mResult>>
vars == <<alertPool, pairable, driverReady, registered, onoff, test_mode,
          incidents, alarm_generic, message, notified, closed, settings,
          enableTimers,
          initTimer, uninit, sse, sseHealthCheckInterval, fetchInProgress,
          fetchDebounceTimer, debounceTimers, apiFailureCount, apiCircuitOpen,
          circuitResetTimers, run, ev, mTarget, mAlert, mResult>>

\* no incidents: {}
NoIncidents == [i \in {} |-> NoAlert]
Put(f, k, v) == [x \in DOMAIN f \cup {k} |-> IF x = k THEN v ELSE f[x]]
Remove(f, k) == [x \in DOMAIN f \ {k} |-> f[x]]

\* the fields app.onInit gives productionSSE and testSSE; handles and timers
\* count the EventSource objects created and not closed, and the reconnect
\* timeouts set and neither cleared nor fired; delay is the delay last
\* computed by scheduleReconnection since the last onopen (0: none)
NewSSE ==
    [eventSource |-> FALSE, connected |-> FALSE, retryCount |-> 0,
     reconnectTimer |-> FALSE, createdAt |-> NoTime,
     handles |-> 0, timers |-> 0, delay |-> 0]

\* no run executing
IdleRun ==
    [pc |-> "idle", needs |-> {}, productionAlerts |-> << >>,
     testAlerts |-> << >>, devices |-> << >>, idx |-> 0, alert |-> NoAlert,
     alerts |-> << >>, testMode |-> FALSE, arg |-> FALSE]

NoSettings == [device |-> << >>, pc |-> "none"]

\* ev: the flow cards triggered, the processAlerts calls made, the stream
\* operations done, the debounce timer set ("set") or cleared and set
\* ("reset"), whether fetchAndDistributeAlerts passed its guards or was
\* turned away by them (skipped), and
\* the exception caught ("getDevices": at the enumeration of the devices;
\* "pipeline": by the catch of the whole run; "store": setStoreValue threw in
\* processAlerts)
Quiet ==
    [flow |-> {}, calls |-> << >>, cancelling |-> {}, sse |-> << >>,
     debounce |-> "none", fetch |-> FALSE, skipped |-> FALSE,
     error |-> "none"]

\* the state after app.onInit, with the devices regs already paired, those
\* of tests in test mode
InitApp(pool, pair, regs, tests, ready) ==
    /\ alertPool = pool
    /\ pairable = pair
    /\ driverReady = ready
    /\ registered = regs
    /\ onoff = [d \in AllDevices |-> TRUE]
    /\ test_mode = [d \in AllDevices |-> d \in tests]
    /\ incidents = [d \in AllDevices |-> NoIncidents]
    /\ alarm_generic = [d \in AllDevices |-> FALSE]
    /\ message = [d \in AllDevices |-> NULL]
    /\ notified = [d \in AllDevices |-> {}]
    /\ closed = [d \in AllDevices |-> {}]
    /\ settings = NoSettings
    /\ enableTimers = 0
    /\ initTimer = TRUE
    /\ uninit = FALSE
    /\ sse = [t \in SSETypes |-> NewSSE]
    /\ sseHealthCheckInterval = FALSE
    /\ fetchInProgress = FALSE
    /\ fetchDebounceTimer = FALSE
    /\ debounceTimers = 0
    /\ apiFailureCount = 0
    /\ apiCircuitOpen = FALSE
    /\ circuitResetTimers = 0
    /\ run = IdleRun
    /\ ev = Quiet

NoMatchInput ==
    /\ mTarget = << >>
    /\ mAlert = NoAlert
    /\ mResult = "none"

\* ------------------------------------------------- streaming connections
\* getDeviceEndpointNeeds: the catch returns false/false when the driver
\* cannot be had; every registered device counts, enabled or not
getDeviceEndpointNeeds(ready, regs, tm) ==
    IF ~ready THEN [hasProduction |-> FALSE, hasTest |-> FALSE]
    ELSE [hasProduction |-> \E i \in 1..Len(regs) : tm[regs[i]] # TRUE,
          hasTest |-> \E i \in 1..Len(regs) : tm[regs[i]] = TRUE]

Needed(needs, type) ==
    IF type = "production" THEN needs.hasProduction ELSE needs.hasTest

\* mutant: the existing EventSource is dropped without being closed
setupSSELeaking(s) ==
    [s EXCEPT !.eventSource = TRUE,
              !.handles = s.handles + 1,
              !.connected = FALSE,
              !.reconnectTimer = FALSE,
              !.timers = IF s.reconnectTimer THEN s.timers - 1 ELSE s.timers,
              !.createdAt = 0]

\* mutant: an existing connection is kept, with its flag and its timer
setupSSEReusing(s) ==
    IF s.eventSource THEN s
    ELSE [s EXCEPT !.eventSource = TRUE,
                   !.handles = s.handles + 1,
                   !.connected = FALSE,
                   !.reconnectTimer = FALSE,
                   !.timers = IF s.reconnectTimer THEN s.timers - 1 ELSE s.timers,
                   !.createdAt = 0]

\* setupSSE: close what exists, clear the reconnect timer, create the new
\* EventSource.  The URL is a constant of CONFIG, so the constructor does
\* not throw and the catch of setupSSE is not taken.
setupSSE(s) ==
    [s EXCEPT !.eventSource = TRUE,
              !.handles = (IF s.eventSource THEN s.handles - 1 ELSE s.handles) + 1,
              !.connected = FALSE,
              !.reconnectTimer = FALSE,
              !.timers = IF s.reconnectTimer THEN s.timers - 1 ELSE s.timers,
              !.createdAt = 0]

setupSSELog(s, type) ==
    (IF s.eventSource THEN << <<"close", type>> >> ELSE << >>)
        \o << <<"new", type>> >>

closeSSE(s) ==
    [s EXCEPT !.eventSource = FALSE,
              !.handles = IF s.eventSource THEN s.handles - 1 ELSE s.handles,
              !.connected = FALSE,
              !.createdAt = NoTime,
              !.reconnectTimer = FALSE,
              !.timers = IF s.reconnectTimer THEN s.timers - 1 ELSE s.timers]

closeSSELog(s, type) ==
    IF s.eventSource THEN << <<"close", type>> >> ELSE << >>

\* mutant: a source that is no longer needed keeps its connection
setupSSEConnectionsKeeping(needs) ==
    [t \in SSETypes |-> IF Needed(needs, t) THEN setupSSE(sse[t]) ELSE sse[t]]

\* setupSSEConnections, given the needs
setupSSEConnections(needs) ==
    [t \in SSETypes |-> IF Needed(needs, t) THEN setupSSE(sse[t]) ELSE closeSSE(sse[t])]

setupSSEConnectionsLog(needs) ==
    (IF needs.hasProduction THEN setupSSELog(sse["production"], "production")
     ELSE closeSSELog(sse["production"], "production"))
    \o (IF needs.hasTest THEN setupSSELog(sse["test"], "test")
        ELSE closeSSELog(sse["test"], "test"))

\* 2 ** n
RECURSIVE Pow2(_)
Pow2(n) == IF n <= 0 THEN 1 ELSE 2 * Pow2(n - 1)

\* mutant: the delay without its ceiling
ReconnectDelayUncapped(retryCount) ==
    SSE_RECONNECT_DELAY * Pow2(retryCount - 1)

\* the delay of scheduleReconnection
ReconnectDelay(retryCount) ==
    Min(SSE_RECONNECT_DELAY * Pow2(retryCount - 1), MAX_BACKOFF_DELAY)

NextRetryCount(retryCount) == Min(retryCount + 1, MAX_RETRY)

\* mutant: a timeout is set whether or not one is pending
scheduleReconnectionAgain(s) ==
    [s EXCEPT !.retryCount = NextRetryCount(s.retryCount),
              !.delay = ReconnectDelay(NextRetryCount(s.retryCount)),
              !.reconnectTimer = TRUE,
              !.timers = s.timers + 1]

\* scheduleReconnection up to setTimeout
scheduleReconnection(s) ==
    IF s.reconnectTimer THEN s
    ELSE [s EXCEPT !.retryCount = NextRetryCount(s.retryCount),
                   !.delay = ReconnectDelay(NextRetryCount(s.retryCount)),
                   !.reconnectTimer = TRUE,
                   !.timers = s.timers + 1]

\* mutant: the pending timeout is not cleared
debouncedWithoutClear ==
    /\ fetchDebounceTimer' = TRUE
    /\ debounceTimers' = debounceTimers + 1

\* debouncedFetchAndDistributeAlerts: the pending timeout is cleared, a new
\* one is set
debouncedFetchAndDistributeAlerts ==
    /\ fetchDebounceTimer' = TRUE
    /\ debounceTimers' = (IF fetchDebounceTimer THEN debounceTimers - 1
                          ELSE debounceTimers) + 1

\* ev.debounce of a step that calls debouncedFetchAndDistributeAlerts
Debounced == IF fetchDebounceTimer THEN "reset" ELSE "set"

\* eventSource.onopen
OnOpen(t) ==
    /\ sse[t].eventSource
    /\ sse' = [sse EXCEPT ![t].connected = TRUE,
                          ![t].retryCount = 0,
                          ![t].delay = 0]
    /\ ev' = Quiet
    /\ UNCHANGED <<envVars, uninit, homeyVars, deviceVars, settings, enableTimers,
                   initTimer, sseHealthCheckInterval, debounceVars,
                   breakerVars, runVars, matchVars>>

\* mutant: a payload that does not parse is treated as a stream error
OnMessageTearingDown(t, parses) ==
    /\ sse[t].eventSource
    /\ sse' = [sse EXCEPT ![t] = IF parses THEN [@ EXCEPT !.connected = TRUE]
                                 ELSE scheduleReconnection(@)]
    /\ IF parses
       THEN /\ debouncedFetchAndDistributeAlerts
            /\ ev' = [Quiet EXCEPT !.debounce = Debounced]
       ELSE /\ UNCHANGED debounceVars
            /\ ev' = Quiet
    /\ UNCHANGED <<envVars, uninit, homeyVars, deviceVars, settings, enableTimers,
                   initTimer, sseHealthCheckInterval, breakerVars, runVars,
                   matchVars>>

\* eventSource.onmessage; parses: JSON.parse(event.data) does not throw
OnMessage(t, parses) ==
    /\ sse[t].eventSource
    /\ sse' = [sse EXCEPT ![t].connected = TRUE]
    /\ IF parses
       THEN /\ debouncedFetchAndDistributeAlerts
            /\ ev' = [Quiet EXCEPT !.debounce = Debounced]
       ELSE /\ UNCHANGED debounceVars
            /\ ev' = Quiet
    /\ UNCHANGED <<envVars, uninit, homeyVars, deviceVars, settings, enableTimers,
                   initTimer, sseHealthCheckInterval, breakerVars, runVars,
                   matchVars>>

\* eventSource.onerror
OnError(t) ==
    /\ sse[t].eventSource
    /\ sse' = [sse EXCEPT ![t] = scheduleReconnection(sse[t])]
    /\ ev' = Quiet
    /\ UNCHANGED <<envVars, uninit, homeyVars, deviceVars, settings, enableTimers,
                   initTimer, sseHealthCheckInterval, debounceVars,
                   breakerVars, runVars, matchVars>>

\* mutant: the callback reconnects without asking whether the source is
\* still needed
ReconnectTimerFiresAlways(t) ==
    /\ sse[t].timers > 0
    /\ LET s == [sse[t] EXCEPT !.reconnectTimer = FALSE, !.timers = @ - 1]
       IN /\ sse' = [sse EXCEPT ![t] = setupSSE(s)]
          /\ ev' = [Quiet EXCEPT !.sse = setupSSELog(s, t)]
    /\ UNCHANGED <<envVars, uninit, homeyVars, deviceVars, settings, enableTimers,
                   initTimer, sseHealthCheckInterval, debounceVars,
                   breakerVars, runVars, matchVars>>

\* the timeout callback of scheduleReconnection
ReconnectTimerFires(t) ==
    /\ sse[t].timers > 0
    /\ LET s == [sse[t] EXCEPT !.reconnectTimer = FALSE, !.timers = @ - 1]
           needs == getDeviceEndpointNeeds(driverReady, registered, test_mode)
       IN IF Needed(needs, t)
          THEN /\ sse' = [sse EXCEPT ![t] = setupSSE(s)]
               /\ ev' = [Quiet EXCEPT !.sse = setupSSELog(s, t)]
          ELSE /\ sse' = [sse EXCEPT ![t] = s]
               /\ ev' = Quiet
    /\ UNCHANGED <<envVars, uninit, homeyVars, deviceVars, settings, enableTimers,
                   initTimer, sseHealthCheckInterval, debounceVars,
                   breakerVars, runVars, matchVars>>

\* mutant: a connection is recycled as soon as it has reached the maximum age
TooOldInclusive(s) == s.createdAt >= SSE_MAX_AGE

\* connectionAge > CONFIG.SSE_MAX_AGE; createdAt holds now - createdAt
TooOld(s) == s.createdAt > SSE_MAX_AGE

\* checkSSEHealth
checkSSEHealth(s) ==
    IF ~s.eventSource \/ s.createdAt = NoTime THEN s
    ELSE IF TooOld(s) THEN setupSSE(closeSSE(s))
    ELSE s

checkSSEHealthLog(s, type) ==
    IF ~s.eventSource \/ s.createdAt = NoTime THEN << >>
    ELSE IF TooOld(s)
    THEN << <<"old", type>> >> \o closeSSELog(s, type)
             \o setupSSELog(closeSSE(s), type)
    ELSE << >>

\* the interval callback of startSSEHealthCheck
HealthCheck ==
    /\ sseHealthCheckInterval
    /\ sse' = [t \in SSETypes |-> checkSSEHealth(sse[t])]
    /\ ev' = [Quiet EXCEPT !.sse = checkSSEHealthLog(sse["production"], "production")
                                   \o checkSSEHealthLog(sse["test"], "test")]
    /\ UNCHANGED <<envVars, uninit, homeyVars, deviceVars, settings, enableTimers,
                   initTimer, sseHealthCheckInterval, debounceVars,
                   breakerVars, runVars, matchVars>>

\* TickMs pass: Date.now() - createdAt grows (kept up to one tick past the
\* maximum age, beyond which checkSSEHealth does not tell ages apart)
Tick ==
    /\ \E t \in SSETypes : sse[t].createdAt # NoTime
                           /\ sse[t].createdAt <= SSE_MAX_AGE
    /\ sse' = [t \in SSETypes |->
                 IF sse[t].createdAt # NoTime /\ sse[t].createdAt <= SSE_MAX_AGE
                 THEN [sse[t] EXCEPT !.createdAt = @ + TickMs]
                 ELSE sse[t]]
    /\ ev' = Quiet
    /\ UNCHANGED <<envVars, uninit, homeyVars, deviceVars, settings, enableTimers,
                   initTimer, sseHealthCheckInterval, debounceVars,
                   breakerVars, runVars, matchVars>>

\* ------------------------------------------------------ incident machine
\* mutant: an Alert is taken up whether or not its incident is already open
ActingAgain(registry, testMode, alert) ==
    /\ ~(alert.status = "Test" /\ ~testMode)
    /\ \/ alert.msgType = "Alert"
       \/ alert.msgType = "Cancel" /\ alert.incidents \in DOMAIN registry

\* the loop body of processAlerts does something for this alert
Acting(registry, testMode, alert) ==
    /\ ~(alert.status = "Test" /\ ~testMode)
    /\ \/ alert.msgType = "Alert" /\ alert.incidents \notin DOMAIN registry
       \/ alert.msgType = "Cancel" /\ alert.incidents \in DOMAIN registry

\* the for...of loop up to the first alert it acts on: what is left of alerts
\* from that alert on, << >> when the loop runs out
RECURSIVE FirstActing(_, _, _)
FirstActing(registry, testMode, alerts) ==
    IF alerts = << >> THEN << >>
    ELSE IF Acting(registry, testMode, Head(alerts)) THEN alerts
    ELSE FirstActing(registry, testMode, Tail(alerts))

\* the tokens of the vma_trigger card that the claims read
Triggered(d, alert) ==
    [card |-> "triggered", device |-> d, incident |-> alert.incidents,
     test |-> (alert.status = "Test")]

Cancelled(d, alert) ==
    [card |-> "cancelled", device |-> d, incident |-> alert.incidents,
     test |-> FALSE]

\* mutant: no device is skipped
SkippedNever(d) == FALSE

\* The device loop passes a device by: it has no onoff capability or the
\* value is false (both branches continue; onoff[d] = FALSE stands for
\* either), and processAlerts, reading the same value in the same turn,
\* would return at once
Skipped(d) == ~onoff[d]

\* The device loop of fetchAndDistributeAlerts and the alert loop of
\* processAlerts, run from device i on to the next await.  enter: device i is
\* taken up (onoff read, relevantAlerts filtered, processAlerts called);
\* otherwise its processAlerts goes on with r.alerts.  The result is the run
\* at that await, the processAlerts calls made on the way and the flow card
\* triggered.  Once the last device has its relevantAlerts the fetched lists
\* are not read again and are dropped from the run.  A Cancel of an open incident that has language info calls
\* this.driver.triggerVMACancel: MyDriver has no such method, the TypeError
\* is caught by the catch of processAlerts, which then returns.
RECURSIVE Advance(_, _, _, _, _)
Advance(r, i, enter, calls, cancelling) ==
    IF i > Len(r.devices)
    THEN [run |-> IdleRun, calls |-> calls, cancelling |-> cancelling, flow |-> {}]
    ELSE LET d == r.devices[i]
         IN IF enter /\ Skipped(d)
            THEN Advance(r, i + 1, TRUE, calls, cancelling)
            ELSE LET tm == IF enter THEN test_mode[d] ELSE r.testMode
                     alertSource == IF tm THEN r.testAlerts ELSE r.productionAlerts
                     b == IF enter THEN RelevantAlerts(alertSource, d) ELSE r.alerts
                     cs == IF enter THEN Append(calls, [device |-> d, alerts |-> b])
                           ELSE calls
                     rest == FirstActing(incidents[d], tm, b)
                     last == i = Len(r.devices)
                     at == [r EXCEPT !.idx = i, !.testMode = tm,
                                     !.productionAlerts = IF last THEN << >> ELSE @,
                                     !.testAlerts = IF last THEN << >> ELSE @]
                 IN IF rest = << >>
                    THEN [run |-> [at EXCEPT !.pc = "alarm", !.alert = NoAlert,
                                             !.alerts = << >>,
                                             !.arg = (DOMAIN incidents[d] # {})],
                          calls |-> cs, cancelling |-> cancelling, flow |-> {}]
                    ELSE IF Head(rest).msgType = "Alert"
                    THEN [run |-> [at EXCEPT !.pc = "store", !.alert = Head(rest),
                                             !.alerts = Tail(rest)],
                          calls |-> cs, cancelling |-> cancelling, flow |-> {}]
                    ELSE LET cg == cancelling \cup {<<d, Head(rest).incidents>>}
                         IN IF getBestLanguageInfo(incidents[d][Head(rest).incidents].info) = << >>
                            THEN [run |-> [at EXCEPT !.pc = "cstore",
                                                     !.alert = Head(rest),
                                                     !.alerts = Tail(rest)],
                                  calls |-> cs, cancelling |-> cg, flow |-> {}]
                            ELSE IF "triggerVMACancel" \in DriverMethods
                            THEN [run |-> [at EXCEPT !.pc = "cstore",
                                                     !.alert = Head(rest),
                                                     !.alerts = Tail(rest)],
                                  calls |-> cs, cancelling |-> cg,
                                  flow |-> {Cancelled(d, incidents[d][Head(rest).incidents])}]
                            ELSE Advance(r, i + 1, TRUE, cs, cg)

\* mutant: a batch with nothing to act on empties the registry
MutatedEmptying(r) ==
    IF r.pc = "store"
    THEN [incidents EXCEPT ![r.devices[r.idx]] = Put(@, r.alert.incidents, r.alert)]
    ELSE IF r.pc = "cstore"
    THEN [incidents EXCEPT ![r.devices[r.idx]] = Remove(@, r.alert.incidents)]
    ELSE IF r.pc = "alarm"
    THEN [incidents EXCEPT ![r.devices[r.idx]] = NoIncidents]
    ELSE incidents

\* this.incidents[incidentId] = alert / delete this.incidents[incidentId],
\* done before the await the run stops at
Mutated(r) ==
    IF r.pc = "store"
    THEN [incidents EXCEPT ![r.devices[r.idx]] = Put(@, r.alert.incidents, r.alert)]
    ELSE IF r.pc = "cstore"
    THEN [incidents EXCEPT ![r.devices[r.idx]] = Remove(@, r.alert.incidents)]
    ELSE incidents

\* notified once the flow cards of flow are triggered and the registries are
\* incidents'
Notified(flow) ==
    [d \in AllDevices |->
        (notified[d] \cup {e.incident : e \in {f \in flow :
                                /\ f.card = "triggered"
                                /\ f.device = d
                                /\ f.incident \in DOMAIN incidents[d]}})
        \cap DOMAIN incidents'[d]]

\* closed once a step of processAlerts has left the registries incidents'
Closed ==
    [d \in AllDevices |-> closed[d] \cup (DOMAIN incidents[d] \ DOMAIN incidents'[d])]

\* the run goes on to its next await; error: the exception it has just caught
Continue(r, i, enter, error) ==
    LET next == Advance(r, i, enter, << >>, {})
    IN /\ run' = next.run
       /\ fetchInProgress' = (next.run.pc # "idle")
       /\ incidents' = Mutated(next.run)
       /\ notified' = Notified({})
       /\ closed' = Closed
       /\ ev' = [Quiet EXCEPT !.calls = next.calls, !.flow = next.flow,
                              !.cancelling = next.cancelling, !.error = error]

\* -------------------------------------------------------------- pipeline
\* the alert lists a REST endpoint may answer with; a failed fetch gives []
Responses == UNION {[1..n -> alertPool] : n \in 0..MaxBatch}

\* mutant: the in-progress flag is not looked at
PassesInProgressIgnored == ~apiCircuitOpen

\* mutant: the circuit breaker is not looked at
PassesBreakerIgnored == ~fetchInProgress

\* the guards of fetchAndDistributeAlerts let the call through
Passes == ~fetchInProgress /\ ~apiCircuitOpen

\* A call of fetchAndDistributeAlerts, up to await Promise.all.  With nothing
\* to fetch the promise is already resolved and the run goes on in the same
\* turn: the failure count is reset, and either the driver cannot be had or
\* there is no device (needs are false/false for no other reason).
fetchAndDistributeAlerts(ready, regs, tm) ==
    IF ~Passes
    THEN UNCHANGED <<fetchInProgress, run, apiFailureCount>>
    ELSE LET needs == getDeviceEndpointNeeds(ready, regs, tm)
         IN IF ~needs.hasProduction /\ ~needs.hasTest
            THEN /\ apiFailureCount' = 0
                 /\ UNCHANGED <<fetchInProgress, run>>
            ELSE /\ fetchInProgress' = TRUE
                 /\ run' = [IdleRun EXCEPT
                              !.pc = "fetch",
                              !.needs = {t \in SSETypes : Needed(needs, t)}]
                 /\ UNCHANGED apiFailureCount

\* ev of a step that calls fetchAndDistributeAlerts
Called(ready) ==
    [Quiet EXCEPT !.fetch = Passes,
                  !.skipped = ~Passes,
                  !.error = IF Passes /\ ~ready THEN "getDevices" ELSE "none"]

\* the 2000 ms timer of app.onInit
AppStart ==
    /\ initTimer
    /\ initTimer' = FALSE
    /\ LET needs == getDeviceEndpointNeeds(driverReady, registered, test_mode)
       IN /\ sse' = setupSSEConnections(needs)
          /\ ev' = [Quiet EXCEPT !.sse = setupSSEConnectionsLog(needs),
                                 !.debounce = Debounced]
    /\ sseHealthCheckInterval' = TRUE
    /\ debouncedFetchAndDistributeAlerts
    /\ UNCHANGED <<envVars, uninit, homeyVars, deviceVars, settings, enableTimers,
                   breakerVars, runVars, matchVars>>

\* the timeout callback of debouncedFetchAndDistributeAlerts
DebounceTimerFires ==
    /\ debounceTimers > 0
    /\ debounceTimers' = debounceTimers - 1
    /\ fetchDebounceTimer' = FALSE
    /\ fetchAndDistributeAlerts(driverReady, registered, test_mode)
    /\ ev' = Called(driverReady)
    /\ UNCHANGED <<envVars, uninit, homeyVars, deviceVars, settings, enableTimers,
                   initTimer, sseVars, circuitResetTimers, apiCircuitOpen,
                   matchVars>>

\* Promise.all resolves: the failure count is reset, the devices are
\* enumerated and the first enabled device is taken up
FetchCompletes ==
    /\ run.pc = "fetch"
    /\ \E p \in (IF "production" \in run.needs THEN Responses ELSE {<< >>}),
          t \in (IF "test" \in run.needs THEN Responses ELSE {<< >>}) :
          IF ~driverReady
          THEN /\ run' = IdleRun
               /\ fetchInProgress' = FALSE
               /\ ev' = [Quiet EXCEPT !.error = "getDevices"]
               /\ UNCHANGED <<incidents, notified, closed>>
          ELSE Continue([run EXCEPT !.productionAlerts = p, !.testAlerts = t,
                                    !.devices = registered], 1, TRUE, "none")
    /\ apiFailureCount' = 0
    /\ UNCHANGED <<envVars, uninit, homeyVars, alarm_generic, message, settings,
                   enableTimers, initTimer, sseVars, debounceVars,
                   apiCircuitOpen, circuitResetTimers, matchVars>>

\* Promise.all rejects (the catch of fetchAlertsFromEndpoint itself throws,
\* at dataStr.substring when error.response.data is undefined): the catch and
\* the finally of fetchAndDistributeAlerts
FetchThrows ==
    /\ run.pc = "fetch"
    /\ apiFailureCount' = apiFailureCount + 1
    /\ IF apiFailureCount + 1 >= FAILURE_THRESHOLD
       THEN /\ apiCircuitOpen' = TRUE
            /\ circuitResetTimers' = circuitResetTimers + 1
       ELSE UNCHANGED <<apiCircuitOpen, circuitResetTimers>>
    /\ run' = IdleRun
    /\ fetchInProgress' = FALSE
    /\ ev' = [Quiet EXCEPT !.error = "pipeline"]
    /\ UNCHANGED <<envVars, uninit, homeyVars, deviceVars, settings, enableTimers,
                   initTimer, sseVars, debounceVars, matchVars>>

\* the 300000 ms timeout set when the breaker opens
CircuitResets ==
    /\ circuitResetTimers > 0
    /\ circuitResetTimers' = circuitResetTimers - 1
    /\ apiCircuitOpen' = FALSE
    /\ apiFailureCount' = 0
    /\ ev' = Quiet
    /\ UNCHANGED <<envVars, uninit, homeyVars, deviceVars, settings, enableTimers,
                   initTimer, sseVars, debounceVars, runVars, matchVars>>

pipelineFrame ==
    UNCHANGED <<envVars, uninit, homeyVars, settings, enableTimers, initTimer,
                sseVars, debounceVars, breakerVars, matchVars>>

\* await this.setStoreValue('incidents', ...) after an incident was stored
\* returns (ok) or throws (caught by the catch of processAlerts)
StoreReturns(ok) ==
    /\ run.pc = "store"
    /\ IF ~ok THEN Continue(run, run.idx + 1, TRUE, "store")
       ELSE IF getBestLanguageInfo(run.alert.info) = << >>
       THEN Continue(run, run.idx, FALSE, "none")
       ELSE /\ run' = [run EXCEPT !.pc = "message"]
            /\ ev' = Quiet
            /\ UNCHANGED <<fetchInProgress, incidents, notified, closed>>
    /\ UNCHANGED <<alarm_generic, message>>
    /\ pipelineFrame

\* await this.setCapabilityValue('message', message) returns (ok) or throws
\* (caught on the spot); then the vma_trigger card is triggered
MessageReturns(ok) ==
    /\ run.pc = "message"
    /\ LET d == run.devices[run.idx]
           alertInfo == Head(getBestLanguageInfo(run.alert.info))
           next == Advance(run, run.idx, FALSE, << >>, {})
       IN /\ message' = IF ok
                        THEN [message EXCEPT ![d] = formatAlertMessage(alertInfo, run.alert.status)]
                        ELSE message
          /\ run' = next.run
          /\ fetchInProgress' = (next.run.pc # "idle")
          /\ incidents' = Mutated(next.run)
          /\ notified' = Notified({Triggered(d, run.alert)})
          /\ closed' = Closed
          /\ ev' = [Quiet EXCEPT !.calls = next.calls,
                                 !.flow = {Triggered(d, run.alert)} \cup next.flow,
                                 !.cancelling = next.cancelling]
    /\ UNCHANGED alarm_generic
    /\ pipelineFrame

\* await this.setStoreValue('incidents', ...) after an incident was deleted
CancelStoreReturns(ok) ==
    /\ run.pc = "cstore"
    /\ IF ok THEN Continue(run, run.idx, FALSE, "none")
       ELSE Continue(run, run.idx + 1, TRUE, "store")
    /\ UNCHANGED <<alarm_generic, message>>
    /\ pipelineFrame

\* await this.setCapabilityValue('alarm_generic', ...) returns or throws
AlarmReturns(ok) ==
    /\ run.pc = "alarm"
    /\ LET d == run.devices[run.idx]
       IN /\ alarm_generic' = IF ok THEN [alarm_generic EXCEPT ![d] = run.arg]
                              ELSE alarm_generic
          /\ IF DOMAIN incidents[d] = {}
             THEN /\ run' = [run EXCEPT !.pc = "clear"]
                  /\ ev' = Quiet
                  /\ UNCHANGED <<fetchInProgress, incidents, notified, closed>>
             ELSE Continue(run, run.idx + 1, TRUE, "none")
    /\ UNCHANGED message
    /\ pipelineFrame

\* await this.setCapabilityValue('message', null) returns or throws
ClearReturns(ok) ==
    /\ run.pc = "clear"
    /\ message' = IF ok THEN [message EXCEPT ![run.devices[run.idx]] = NULL]
                  ELSE message
    /\ Continue(run, run.idx + 1, TRUE, "none")
    /\ UNCHANGED alarm_generic
    /\ pipelineFrame

\* app.onUninit: the debounce timeout and the health check interval are
\* cleared and both streams closed; the 2000 ms timer of onInit, the reset
\* timeout of the breaker, the timers of the onoff listener and an executing
\* run are not touched
OnUninit ==
    /\ ~uninit
    /\ uninit' = TRUE
    /\ fetchDebounceTimer' = FALSE
    /\ debounceTimers' = IF fetchDebounceTimer THEN debounceTimers - 1
                         ELSE debounceTimers
    /\ sseHealthCheckInterval' = FALSE
    /\ sse' = [t \in SSETypes |-> closeSSE(sse[t])]
    /\ ev' = [Quiet EXCEPT !.sse = closeSSELog(sse["production"], "production")
                                   \o closeSSELog(sse["test"], "test")]
    /\ UNCHANGED <<envVars, homeyVars, deviceVars, settings, enableTimers,
                   initTimer, breakerVars, runVars, matchVars>>

\* ------------------------------------------------------- device handlers
Without(seq, d) == SelectSeq(seq, LAMBDA x : x # d)

\* the driver has been initialized: getDriver('vma') no longer throws
DriverReady ==
    /\ ~driverReady
    /\ driverReady' = TRUE
    /\ ev' = Quiet
    /\ UNCHANGED <<envVars, uninit, registered, onoff, test_mode, deviceVars, settings,
                   enableTimers, initTimer, sseVars, debounceVars, breakerVars,
                   runVars, matchVars>>

\* A device is paired: device.onInit (no stored incidents, onoff true), then
\* device.onAdded.  A device object that an executing run or handler still
\* holds is not paired again before that run or handler is over.
OnAdded(d) ==
    /\ driverReady
    /\ d \in pairable
    /\ d \notin Range(registered)
    /\ d \notin Range(run.devices)
    /\ settings.device # d
    /\ registered' = Append(registered, d)
    /\ onoff' = [onoff EXCEPT ![d] = TRUE]
    /\ test_mode' = [test_mode EXCEPT ![d] = FALSE]
    /\ incidents' = [incidents EXCEPT ![d] = NoIncidents]
    /\ notified' = Notified({})
    /\ closed' = [closed EXCEPT ![d] = {}]
    /\ alarm_generic' = [alarm_generic EXCEPT ![d] = FALSE]
    /\ message' = [message EXCEPT ![d] = NULL]
    /\ LET needs == getDeviceEndpointNeeds(driverReady, registered', test_mode')
       IN /\ sse' = setupSSEConnections(needs)
          /\ ev' = [Called(driverReady) EXCEPT !.sse = setupSSEConnectionsLog(needs)]
    /\ fetchAndDistributeAlerts(driverReady, registered', test_mode')
    /\ UNCHANGED <<envVars, uninit, driverReady, settings, enableTimers, initTimer,
                   sseHealthCheckInterval, debounceVars, apiCircuitOpen,
                   circuitResetTimers, matchVars>>

\* device.onDeleted: the device is no longer among driver.getDevices()
OnDeleted(d) ==
    /\ d \in Range(registered)
    /\ settings.device # d
    /\ registered' = Without(registered, d)
    /\ LET needs == getDeviceEndpointNeeds(driverReady, registered', test_mode)
       IN /\ sse' = setupSSEConnections(needs)
          /\ ev' = [Quiet EXCEPT !.sse = setupSSEConnectionsLog(needs)]
    /\ UNCHANGED <<envVars, uninit, driverReady, onoff, test_mode, deviceVars, settings,
                   enableTimers, initTimer, sseHealthCheckInterval,
                   debounceVars, breakerVars, runVars, matchVars>>

\* the capability listener of onoff; turned on, it sets a 100 ms timer
OnOff(d, value) ==
    /\ d \in Range(registered)
    /\ value # onoff[d]
    /\ value => enableTimers < MaxEnableTimers
    /\ onoff' = [onoff EXCEPT ![d] = value]
    /\ enableTimers' = IF value THEN enableTimers + 1 ELSE enableTimers
    /\ ev' = Quiet
    /\ UNCHANGED <<envVars, uninit, driverReady, registered, test_mode, deviceVars,
                   settings, initTimer, sseVars, debounceVars, breakerVars,
                   runVars, matchVars>>

\* the 100 ms timer of the onoff listener
EnableTimerFires ==
    /\ enableTimers > 0
    /\ enableTimers' = enableTimers - 1
    /\ fetchAndDistributeAlerts(driverReady, registered, test_mode)
    /\ ev' = Called(driverReady)
    /\ UNCHANGED <<envVars, uninit, homeyVars, deviceVars, settings, initTimer,
                   sseVars, debounceVars, apiCircuitOpen, circuitResetTimers,
                   matchVars>>

\* device.onSettings with test_mode among the changed keys, up to its first
\* await.  getSettings() gives the new value from here on; one settings
\* dialog is open at a time.
OnSettings(d) ==
    /\ d \in Range(registered)
    /\ settings.pc = "none"
    /\ test_mode' = [test_mode EXCEPT ![d] = ~test_mode[d]]
    /\ incidents' = [incidents EXCEPT ![d] = NoIncidents]
    /\ notified' = Notified({})
    /\ closed' = closed
    /\ settings' = [device |-> d, pc |-> "store"]
    /\ ev' = Quiet
    /\ UNCHANGED <<envVars, uninit, driverReady, registered, onoff, alarm_generic,
                   message, enableTimers, initTimer, sseVars, debounceVars,
                   breakerVars, runVars, matchVars>>

\* onSettings: await this.setStoreValue('incidents', {}) returns
SettingsStored ==
    /\ settings.pc = "store"
    /\ settings' = [settings EXCEPT !.pc = "alarm"]
    /\ ev' = Quiet
    /\ UNCHANGED <<envVars, uninit, homeyVars, deviceVars, enableTimers, initTimer,
                   sseVars, debounceVars, breakerVars, runVars, matchVars>>

\* onSettings: setupSSEConnections and the forced fetchAndDistributeAlerts
SettingsReconfigure ==
    /\ settings' = NoSettings
    /\ LET needs == getDeviceEndpointNeeds(driverReady, registered, test_mode)
       IN /\ sse' = setupSSEConnections(needs)
          /\ ev' = [Called(driverReady) EXCEPT !.sse = setupSSEConnectionsLog(needs)]
    /\ fetchAndDistributeAlerts(driverReady, registered, test_mode)

\* onSettings: await this.setCapabilityValue('alarm_generic', false) returns
\* (ok) or throws (then the message is not cleared either)
SettingsAlarmReturns(ok) ==
    /\ settings.pc = "alarm"
    /\ IF ok
       THEN /\ alarm_generic' = [alarm_generic EXCEPT ![settings.device] = FALSE]
            /\ settings' = [settings EXCEPT !.pc = "message"]
            /\ ev' = Quiet
            /\ UNCHANGED <<sse, runVars, apiFailureCount>>
       ELSE /\ SettingsReconfigure
            /\ UNCHANGED alarm_generic
    /\ UNCHANGED <<envVars, uninit, homeyVars, incidents, notified, closed, message,
                   enableTimers,
                   initTimer, sseHealthCheckInterval, debounceVars,
                   apiCircuitOpen, circuitResetTimers, matchVars>>

\* onSettings: await this.setCapabilityValue('message', null) returns or
\* throws; then the connections are reconfigured and a fetch is forced
SettingsMessageReturns(ok) ==
    /\ settings.pc = "message"
    /\ message' = IF ok THEN [message EXCEPT ![settings.device] = NULL]
                  ELSE message
    /\ SettingsReconfigure
    /\ UNCHANGED <<envVars, uninit, homeyVars, incidents, notified, closed, alarm_generic,
                   enableTimers,
                   initTimer, sseHealthCheckInterval, debounceVars,
                   apiCircuitOpen, circuitResetTimers, matchVars>>

\* ------------------------------------------------------- specifications
\* the alerts the endpoints of the modelled server may publish
Alerts == {A1, K1, T2}

\* One device of area code "00", paired before the app starts, its driver
\* initialized: runs, stream messages and changes of its test_mode setting
Init ==
    /\ InitApp(Alerts, {T00}, <<T00>>, {}, TRUE)
    /\ NoMatchInput

Next ==
    \/ AppStart
    \/ \E d \in AllDevices : OnSettings(d)
    \/ SettingsStored
    \/ \E ok \in BOOLEAN : SettingsAlarmReturns(ok)
    \/ \E ok \in BOOLEAN : SettingsMessageReturns(ok)
    \/ \E t \in SSETypes, parses \in BOOLEAN : OnMessage(t, parses)
    \/ DebounceTimerFires
    \/ FetchCompletes
    \/ \E ok \in BOOLEAN : StoreReturns(ok)
    \/ \E ok \in BOOLEAN : MessageReturns(ok)
    \/ \E ok \in BOOLEAN : AlarmReturns(ok)
    \/ \E ok \in BOOLEAN : ClearReturns(ok)

Spec == Init /\ [][Next]_vars

\* ----------------------------------------------- incident state machine
\* processAlerts of device d is between storing incident x and triggering
\* the card for it
Inserting(d, x) ==
    /\ run.pc \in {"store", "message"}
    /\ run.devices[run.idx] = d
    /\ run.alert.incidents = x

C4_RoundTrip ==
    [][\A c \in ev'.cancelling :
        getBestLanguageInfo(incidents[c[1]][c[2]].info) # << >> =>
            /\ \E e \in ev'.flow :
                  e.card = "cancelled" /\ e.device = c[1] /\ e.incident = c[2]
            /\ c[2] \notin DOMAIN incidents'[c[1]]]_vars

\* C9 (as claimed): while test_mode of a device is false its registry holds
\* no alert of status Test and no "triggered" emission of it has test true.
C9_NoTestInProduction ==
    \A d \in Range(registered) :
        ~test_mode[d] =>
            /\ \A x \in DOMAIN incidents[d] : incidents[d][x].status # "Test"
            /\ \A e \in ev.flow :
                  (e.card = "triggered" /\ e.device = d) => ~e.test

\* ---------------------------------------------------------- geocode match
\* the geocodes and the area lists of the drawn alerts
Geocodes == {<< >>, T01, <<1, 4>>, T0114, T1480}
AreaLists == UNION {[1..n -> Geocodes] : n \in 0..MaxAreas}
\* an alert with one AlertInfo per area list
Carrying(lists) ==
    Alert("i1", "Alert", "Actual",
          [i \in 1..Len(lists) |-> Info(SV, "m1", "", lists[i])])

\* the filter of the device loop applied to one fetched alert
FilterForDevice ==
    /\ mResult = "none"
    /\ mTarget # << >>
    /\ mResult' = IF RelevantAlerts(<<mAlert>>, mTarget) = <<mAlert>>
                  THEN "relevant" ELSE "irrelevant"
    /\ ev' = Quiet
    /\ UNCHANGED <<envVars, uninit, homeyVars, deviceVars, settings, enableTimers,
                   initTimer, sseVars, debounceVars, breakerVars, runVars,
                   mTarget, mAlert>>

\* every target area code against every alert of up to MaxInfos AlertInfos
\* with up to MaxAreas AreaRefs each
InitMatcher ==
    /\ InitApp({}, {}, << >>, {}, FALSE)
    /\ mTarget \in AllDevices
    /\ \E n \in 0..MaxInfos : \E lists \in [1..n -> AreaLists] :
          mAlert = Carrying(lists)
    /\ mResult = "none"

NextMatcher == FilterForDevice

SpecMatcher == InitMatcher /\ [][NextMatcher]_vars

\* the geocodes of all AreaRefs of an alert
GeocodesOf(alert) ==
    UNION {{alert.info[i].area[j].geocode : j \in DOMAIN alert.info[i].area} :
              i \in DOMAIN alert.info}

\* C1: an alert is relevant to target "00" always, and to any other target T
\* iff some AreaRef geocode of it equals T or has 2 digits and is a prefix of
\* a 4-digit T; a 4-digit geocode never makes it relevant to a 2-digit T.
C1_Matcher ==
    mResult # "none" =>
        /\ (mResult = "relevant") <=>
              \/ mTarget = T00
              \/ \E g \in GeocodesOf(mAlert) :
                    \/ g = mTarget
                    \/ /\ Len(g) = 2
                       /\ Len(mTarget) = 4
                       /\ SubSeq(mTarget, 1, 2) = g
        /\ (/\ mTarget # T00
            /\ Len(mTarget) = 2
            /\ \A g \in GeocodesOf(mAlert) : Len(g) = 4) => mResult = "irrelevant"

\* a municipality target found relevant by the county rule alone
C1_Witness ==
    /\ mResult = "relevant"
    /\ Len(mTarget) = 4
    /\ mTarget \notin GeocodesOf(mAlert)

\* ------------------------------------------------------------ distribution
\* County 01, two of its municipalities and a municipality of county 14,
\* all enabled and on the production source; the server publishes A1 (county
\* 01 only) and T2
InitDistribute ==
    /\ InitApp({A1, T2}, {}, <<T01, T0114, T0180, T1480>>, {}, TRUE)
    /\ NoMatchInput

NextDistribute ==
    \/ AppStart
    \/ \E t \in SSETypes, parses \in BOOLEAN : OnMessage(t, parses)
    \/ DebounceTimerFires
    \/ FetchCompletes
    \/ \E ok \in BOOLEAN : StoreReturns(ok)
    \/ \E ok \in BOOLEAN : MessageReturns(ok)
    \/ \E ok \in BOOLEAN : AlarmReturns(ok)
    \/ \E ok \in BOOLEAN : ClearReturns(ok)

SpecDistribute == InitDistribute /\ [][NextDistribute]_vars

\* productionAlerts of the run that takes this step
Fetched == IF run.pc = "fetch" THEN run'.productionAlerts ELSE run.productionAlerts

\* C2 (as claimed): of the enabled targets 01, 0114 and 0180 on one source,
\* 01 and 0114 receive a fetched alert whose only geocode is 01 and 0180
\* does not.
C2_Scenario ==
    [][\A k \in DOMAIN ev'.calls :
        A1 \in Range(Fetched) =>
            /\ ev'.calls[k].device \in {T01, T0114} =>
                  A1 \in Range(ev'.calls[k].alerts)
            /\ ev'.calls[k].device = T0180 =>
                  A1 \notin Range(ev'.calls[k].alerts)]_vars

\* C2 (amended): targets 01, 0114 and 0180 all receive a fetched alert whose
\* only geocode is 01 (0180 begins with 01 too); target 1480, of another
\* county, does not.
C2_CountyRule ==
    [][\A k \in DOMAIN ev'.calls :
        A1 \in Range(Fetched) =>
            /\ ev'.calls[k].device \in {T01, T0114, T0180} =>
                  A1 \in Range(ev'.calls[k].alerts)
            /\ ev'.calls[k].device = T1480 =>
                  A1 \notin Range(ev'.calls[k].alerts)]_vars

\* processAlerts of 0180 is called with A1 after 01 and 0114 stored it
C2_Witness ==
    /\ \E k \in DOMAIN ev.calls :
        /\ ev.calls[k].device = T0180
        /\ A1 \in Range(ev.calls[k].alerts)
    /\ A1.incidents \in DOMAIN incidents[T01]
    /\ A1.incidents \in DOMAIN incidents[T0114]

\* ------------------------------------------------------------- redelivery
\* One device of area code "00" whose test_mode stays false; the server
\* publishes A1 and an alert without AlertInfo, with its cancellation
InitRedelivery ==
    /\ InitApp({A1, E3, K3}, {T00}, <<T00>>, {}, TRUE)
    /\ NoMatchInput

NextRedelivery ==
    \/ AppStart
    \/ \E t \in SSETypes, parses \in BOOLEAN : OnMessage(t, parses)
    \/ DebounceTimerFires
    \/ FetchCompletes
    \/ \E ok \in BOOLEAN : StoreReturns(ok)
    \/ \E ok \in BOOLEAN : MessageReturns(ok)
    \/ \E ok \in BOOLEAN : CancelStoreReturns(ok)
    \/ \E ok \in BOOLEAN : AlarmReturns(ok)
    \/ \E ok \in BOOLEAN : ClearReturns(ok)

SpecRedelivery == InitRedelivery /\ [][NextRedelivery]_vars

\* --------------------------------------------------- stream connections
\* One device of area code "00", on the production or on the test source;
\* the server publishes nothing; the stream opens, fails, is reconnected and
\* recycled
InitSSE ==
    /\ \E tests \in SUBSET {T00} : InitApp({}, {T00}, <<T00>>, tests, TRUE)
    /\ NoMatchInput

NextSSE ==
    \/ AppStart
    \/ \E t \in SSETypes : OnOpen(t)
    \/ \E t \in SSETypes, parses \in BOOLEAN : OnMessage(t, parses)
    \/ \E t \in SSETypes : OnError(t)
    \/ \E t \in SSETypes : ReconnectTimerFires(t)
    \/ HealthCheck
    \/ Tick
    \/ DebounceTimerFires
    \/ FetchCompletes
    \/ \E ok \in BOOLEAN : AlarmReturns(ok)
    \/ \E ok \in BOOLEAN : ClearReturns(ok)

SpecSSE == InitSSE /\ [][NextSSE]_vars

\* C5: retryCount is between 0 and 10 in every state, and the reconnect
\* delays computed one after another with no onopen in between never
\* decrease and never exceed MAX_BACKOFF_DELAY.
C5_Backoff ==
    /\ [](\A t \in SSETypes :
            /\ sse[t].retryCount \in 0..MAX_RETRY
            /\ sse[t].delay <= MAX_BACKOFF_DELAY)
    /\ [][\A t \in SSETypes :
            sse'[t].delay # 0 => sse'[t].delay >= sse[t].delay]_vars

\* repeated errors have driven a stream to the last attempt and the ceiling
C5_Witness ==
    \E t \in SSETypes :
        /\ sse[t].retryCount = MAX_RETRY
        /\ sse[t].delay = MAX_BACKOFF_DELAY
        /\ sse[t].reconnectTimer

\* C10: a health check closes a live connection older than SSE_MAX_AGE and
\* opens a new one for the same source, and leaves a connection that is not
\* older unchanged; the recycle keeps retryCount, which only onopen sets
\* back to 0.
C10_HealthCheck ==
    [][/\ HealthCheck =>
            \A t \in SSETypes :
                IF /\ sse[t].eventSource
                   /\ sse[t].createdAt # NoTime
                   /\ sse[t].createdAt > SSE_MAX_AGE
                THEN /\ ev'.sse = << <<"old", t>>, <<"close", t>>, <<"new", t>> >>
                     /\ sse'[t].eventSource
                     /\ sse'[t].handles = sse[t].handles
                     /\ sse'[t].createdAt = 0
                     /\ ~sse'[t].connected
                     /\ sse'[t].retryCount = sse[t].retryCount
                ELSE sse'[t] = sse[t]
       /\ \A t \in SSETypes :
            (sse[t].retryCount # 0 /\ sse'[t].retryCount = 0) => OnOpen(t)]_vars

\* a health check has recycled a connection that had failed before
C10_Witness ==
    \E t \in SSETypes :
        /\ ev.sse = << <<"old", t>>, <<"close", t>>, <<"new", t>> >>
        /\ sse[t].retryCount > 0
        /\ sse[t].createdAt = 0

\* ---------------------------------------------- debounce and breaker
\* One device of area code "00", turned off and on; the driver is
\* initialized before or after the 2000 ms timer of the app; the server
\* publishes nothing and a fetch may make the run throw
InitBreaker ==
    /\ InitApp({}, {T00}, <<T00>>, {}, FALSE)
    /\ NoMatchInput

NextBreaker ==
    \/ DriverReady
    \/ AppStart
    \/ \E t \in SSETypes, parses \in BOOLEAN : OnMessage(t, parses)
    \/ DebounceTimerFires
    \/ FetchCompletes
    \/ FetchThrows
    \/ CircuitResets
    \/ \E d \in AllDevices, value \in BOOLEAN : OnOff(d, value)
    \/ EnableTimerFires
    \/ \E ok \in BOOLEAN : AlarmReturns(ok)
    \/ \E ok \in BOOLEAN : ClearReturns(ok)

SpecBreaker == InitBreaker /\ [][NextBreaker]_vars

\* a timeout that is pending fires in the end
FairSpecBreaker == SpecBreaker /\ WF_vars(CircuitResets)

\* C6 (as claimed): at most one debounce timer is pending, and exactly one
\* run starts when the timer fires.
C6_OneRunPerBurst ==
    /\ [](debounceTimers <= 1)
    /\ [][DebounceTimerFires => ev'.fetch]_vars

\* C6 (amended): each request cancels the pending timer, at most one debounce
\* timer is pending, and when it fires fetchAndDistributeAlerts is called
\* once: a run starts iff no run is executing and the breaker is closed.
C6_OneCallPerBurst ==
    /\ [](/\ debounceTimers <= 1
          /\ fetchDebounceTimer <=> debounceTimers = 1)
    /\ [][DebounceTimerFires =>
            /\ debounceTimers' = 0
            /\ ev'.fetch <=> (~fetchInProgress /\ ~apiCircuitOpen)
            /\ ev'.fetch => (fetchInProgress' \/ ev'.error = "getDevices")]_vars

\* a request has arrived while the timer of an earlier one was pending
C6_Witness ==
    /\ ev.debounce = "reset"
    /\ debounceTimers = 1

\* C7 (as claimed): a run that fails at pipeline level, the enumeration of
\* the devices included, adds one to the failure count; at 5 the breaker is
\* open and its reset scheduled.
C7_FailuresCounted ==
    [][ev'.error \in {"getDevices", "pipeline"} =>
        /\ apiFailureCount' = apiFailureCount + 1
        /\ apiFailureCount' >= FAILURE_THRESHOLD =>
              (apiCircuitOpen' /\ circuitResetTimers' > 0)]_vars

\* C8: the breaker is open only with the failure count at the threshold;
\* while it is open no run executes, starts, or calls processAlerts; and an
\* open breaker is closed again, with the count at 0, by its reset timer.
C8_Breaker ==
    /\ [](apiCircuitOpen =>
            /\ apiFailureCount >= FAILURE_THRESHOLD
            /\ circuitResetTimers = 1
            /\ run.pc = "idle"
            /\ ~fetchInProgress)
    /\ [][apiCircuitOpen => (~ev'.fetch /\ ev'.calls = << >>)]_vars
    /\ [][(apiCircuitOpen /\ ~apiCircuitOpen') =>
            (CircuitResets /\ apiFailureCount' = 0)]_vars
    /\ (apiCircuitOpen ~> (~apiCircuitOpen /\ apiFailureCount = 0))

\* the fifth failed run in a row has just opened the breaker
C8_Witness ==
    /\ apiCircuitOpen
    /\ apiFailureCount = FAILURE_THRESHOLD
    /\ circuitResetTimers = 1
    /\ ev.error = "pipeline"

\* ---------------------------------------------------------- reconciliation
\* One device of area code "00", paired before the app starts or later,
\* deleted, turned off and on and moved between the sources, while the
\* streams open, deliver, fail, are reconnected and are recycled.  A run
\* does not touch the streams, and the fetch of a run that starts here has
\* not returned by the end of the behaviour.
InitReconcile ==
    /\ \E regs \in {<< >>, <<T00>>} : InitApp({}, {T00}, regs, {}, TRUE)
    /\ NoMatchInput

NextReconcile ==
    \/ AppStart
    \/ \E d \in AllDevices : OnAdded(d)
    \/ \E d \in AllDevices : OnDeleted(d)
    \/ \E d \in AllDevices, value \in BOOLEAN : OnOff(d, value)
    \/ EnableTimerFires
    \/ \E d \in AllDevices : OnSettings(d)
    \/ SettingsStored
    \/ \E ok \in BOOLEAN : SettingsAlarmReturns(ok)
    \/ \E ok \in BOOLEAN : SettingsMessageReturns(ok)
    \/ \E t \in SSETypes : OnOpen(t)
    \/ \E t \in SSETypes, parses \in BOOLEAN : OnMessage(t, parses)
    \/ \E t \in SSETypes : sse[t].retryCount < MaxFailures /\ OnError(t)
    \/ \E t \in SSETypes : ReconnectTimerFires(t)
    \/ HealthCheck
    \/ Tick

SpecReconcile == InitReconcile /\ [][NextReconcile]_vars

\* C11: for each source at most one connection handle is opened and not yet
\* closed, in every reachable state, and it is the handle that the source's
\* record holds.
C11_SingleHandle ==
    \A t \in SSETypes :
        /\ sse[t].handles <= 1
        /\ sse[t].handles = 1 <=> sse[t].eventSource

\* a reconnect timer has replaced the failed connection of a source by a new
\* one
C11_Witness ==
    \E t \in SSETypes :
        /\ ev.sse = << <<"close", t>>, <<"new", t>> >>
        /\ sse[t].retryCount > 0
        /\ sse[t].handles = 1

\* C12: for each source at most one reconnect timer is pending in every
\* reachable state; onerror with a timer pending leaves retryCount and the
\* timer as they are; and a step that opens or closes the connection of a
\* source leaves no reconnect timer of it pending.
C12_SingleReconnectTimer ==
    /\ [](\A t \in SSETypes :
            /\ sse[t].timers <= 1
            /\ sse[t].reconnectTimer <=> sse[t].timers = 1)
    /\ [][\A t \in SSETypes :
            /\ (OnError(t) /\ sse[t].reconnectTimer) =>
                  /\ sse'[t].retryCount = sse[t].retryCount
                  /\ sse'[t].delay = sse[t].delay
                  /\ sse'[t].timers = sse[t].timers
                  /\ sse'[t].reconnectTimer
            /\ (\E k \in DOMAIN ev'.sse :
                    ev'.sse[k] \in {<<"new", t>>, <<"close", t>>}) =>
                  /\ sse'[t].timers = 0
                  /\ ~sse'[t].reconnectTimer]_vars

\* the second failure in a row of a stream has its reconnect timer pending
C12_Witness ==
    \E t \in SSETypes :
        /\ sse[t].eventSource
        /\ sse[t].reconnectTimer
        /\ sse[t].timers = 1
        /\ sse[t].retryCount = 2

\* ------------------------------------------------------- one run at a time
\* One device of area code "00", paired before the app starts, deleted and
\* paired again, turned off and on and moved between the sources; the driver
\* is initialized before or after the first runs; the server publishes A1
\* and a fetch may make the run throw
InitMutex ==
    /\ InitApp({A1}, {T00}, <<T00>>, {}, FALSE)
    /\ NoMatchInput

NextMutex ==
    \/ DriverReady
    \/ AppStart
    \/ \E d \in AllDevices : OnAdded(d)
    \/ \E d \in AllDevices : OnDeleted(d)
    \/ \E d \in AllDevices, value \in BOOLEAN : OnOff(d, value)
    \/ EnableTimerFires
    \/ \E d \in AllDevices : OnSettings(d)
    \/ SettingsStored
    \/ \E ok \in BOOLEAN : SettingsAlarmReturns(ok)
    \/ \E ok \in BOOLEAN : SettingsMessageReturns(ok)
    \/ \E t \in SSETypes, parses \in BOOLEAN : OnMessage(t, parses)
    \/ DebounceTimerFires
    \/ FetchCompletes
    \/ FetchThrows
    \/ CircuitResets
    \/ \E ok \in BOOLEAN : StoreReturns(ok)
    \/ \E ok \in BOOLEAN : MessageReturns(ok)
    \/ \E ok \in BOOLEAN : AlarmReturns(ok)
    \/ \E ok \in BOOLEAN : ClearReturns(ok)

SpecMutex == InitMutex /\ [][NextMutex]_vars

\* a step that calls fetchAndDistributeAlerts: the debounce timer, a device
\* added, the timer of a device turned on, or the end of onSettings
Requesting ==
    \/ DebounceTimerFires
    \/ EnableTimerFires
    \/ \E d \in AllDevices : OnAdded(d)
    \/ SettingsAlarmReturns(FALSE)
    \/ \E ok \in BOOLEAN : SettingsMessageReturns(ok)

\* C13: the in-progress flag is set exactly while a run is between its start
\* and its end, whichever way the run ends; a request made in between starts
\* no fetch, calls no processAlerts, triggers no card and leaves the
\* executing run as it is; and a run starts only when none is executing.
C13_OneRun ==
    /\ [](fetchInProgress <=> run.pc # "idle")
    /\ [][(Requesting /\ fetchInProgress) =>
            /\ ~ev'.fetch
            /\ ev'.skipped
            /\ ev'.calls = << >>
            /\ ev'.flow = {}
            /\ run' = run
            /\ fetchInProgress']_vars
    /\ [][(ev'.fetch \/ (run'.pc = "fetch" /\ run' # run)) =>
            (~fetchInProgress /\ run.pc = "idle")]_vars

\* a request has been turned away while a run was waiting for setStoreValue
C13_Witness ==
    /\ ev.skipped
    /\ run.pc = "store"
    /\ fetchInProgress
    /\ ~apiCircuitOpen

\* ------------------------------------------------------- disabled devices
\* Devices "00" and "01" on the production source, turned off and on while
\* runs execute; the server publishes A1, which is relevant to both
InitSkip ==
    /\ InitApp({A1}, {}, <<T00, T01>>, {}, TRUE)
    /\ NoMatchInput

NextSkip ==
    \/ AppStart
    \/ \E d \in AllDevices, value \in BOOLEAN : OnOff(d, value)
    \/ EnableTimerFires
    \/ DebounceTimerFires
    \/ FetchCompletes
    \/ \E ok \in BOOLEAN : StoreReturns(ok)
    \/ \E ok \in BOOLEAN : MessageReturns(ok)
    \/ \E ok \in BOOLEAN : AlarmReturns(ok)
    \/ \E ok \in BOOLEAN : ClearReturns(ok)

SpecSkip == InitSkip /\ [][NextSkip]_vars

\* the run is inside processAlerts of device d
Processing(d) ==
    /\ run.pc \notin {"idle", "fetch"}
    /\ run.devices[run.idx] = d

\* this step calls processAlerts of d, writes its registry, its alarm or its
\* message, or triggers a card for it
Touching(d) ==
    \/ incidents'[d] # incidents[d]
    \/ alarm_generic'[d] # alarm_generic[d]
    \/ message'[d] # message[d]
    \/ \E e \in ev'.flow : e.device = d
    \/ \E k \in DOMAIN ev'.calls : ev'.calls[k].device = d

\* C14: a run passes by every device that is off when the run comes to it:
\* the run enters processAlerts only of a device that is on, and a device
\* that is off and that the run is not already inside has its registry,
\* alarm and message left as they are and no card triggered, whatever was
\* fetched.
C14_DisabledSkipped ==
    [][\A d \in Range(registered) :
        /\ (Processing(d)' /\ ~Processing(d)) => onoff[d]
        /\ (~onoff[d] /\ ~Processing(d)) => ~Touching(d)]_vars

\* a run that fetched A1 has passed by device "00", which is off, and is
\* storing A1 for device "01"
C14_Witness ==
    /\ ~onoff[T00]
    /\ run.pc = "store"
    /\ run.devices[run.idx] = T01
    /\ run.alert = A1
    /\ DOMAIN ev.calls = {1}
    /\ incidents[T00] = NoIncidents

\* some registered device that is on subscribes to source t
EnabledSubscriber(t) ==
    \E d \in Range(registered) :
        onoff[d] /\ (test_mode[d] <=> t = "test")

\* some registered device, on or off, subscribes to source t
Subscriber(t) ==
    \E d \in Range(registered) : test_mode[d] <=> t = "test"

\* the app has started and no onSettings handler or enable timer is under way
Settled ==
    /\ ~initTimer
    /\ settings.pc = "none"
    /\ enableTimers = 0

InitShutdown ==
    /\ InitApp({}, {T00}, <<T00>>, {}, TRUE)
    /\ NoMatchInput

NextShutdown ==
    \/ AppStart
    \/ OnUninit
    \/ \E t \in SSETypes, parses \in BOOLEAN : OnMessage(t, parses)
    \/ \E t \in SSETypes : sse[t].retryCount < MaxFailures /\ OnError(t)
    \/ \E t \in SSETypes : ReconnectTimerFires(t)
    \/ HealthCheck
    \/ ~uninit /\ \E d \in AllDevices, value \in BOOLEAN : OnOff(d, value)
    \/ EnableTimerFires
    \/ DebounceTimerFires
    \/ FetchCompletes
    \/ FetchThrows
    \/ CircuitResets
    \/ \E ok \in BOOLEAN : AlarmReturns(ok)
    \/ \E ok \in BOOLEAN : ClearReturns(ok)

SpecShutdown == InitShutdown /\ [][NextShutdown]_vars

\* the callback of a timer runs
TimerFires ==
    \/ AppStart
    \/ DebounceTimerFires
    \/ \E t \in SSETypes : ReconnectTimerFires(t)
    \/ HealthCheck
    \/ CircuitResets
    \/ EnableTimerFires

\* C16 (as claimed): onUninit leaves no debounce, reconnect or health check
\* timer pending and both streams closed, and from then on no timer callback
\* runs, no fetch is started and no stream is opened.
C16_Shutdown ==
    /\ [][OnUninit =>
            /\ debounceTimers' = 0
            /\ ~fetchDebounceTimer'
            /\ ~sseHealthCheckInterval'
            /\ \A t \in SSETypes :
                  /\ sse'[t].timers = 0
                  /\ sse'[t].handles = 0
                  /\ ~sse'[t].eventSource]_vars
    /\ [][uninit =>
            /\ ~TimerFires
            /\ ~ev'.fetch
            /\ \A t \in SSETypes : sse'[t].handles <= sse[t].handles]_vars

\* ------------------------------------------------------------ failed fetch
\* C17: a fetch that fails gives the run an empty list and the run goes on
\* as after any fetch (nothing is caught, the failure count is 0); the
\* processAlerts call that gets the empty list leaves the registry of its
\* device as it is, triggers no card and cancels nothing, and goes straight
\* to the alarm, which it sets from the registry as it was; the alarm and
\* message writes that follow leave the registry alone too.
C17_EmptyResult ==
    [][/\ \A k \in DOMAIN ev'.calls :
            ev'.calls[k].alerts = << >> =>
                LET d == ev'.calls[k].device
                IN /\ FetchCompletes => (ev'.error = "none" /\ apiFailureCount' = 0)
                   /\ incidents'[d] = incidents[d]
                   /\ \A e \in ev'.flow : e.device # d
                   /\ \A c \in ev'.cancelling : c[1] # d
                   /\ (run'.pc # "idle" /\ run'.devices[run'.idx] = d) =>
                         /\ run'.pc = "alarm"
                         /\ run'.alerts = << >>
                         /\ run'.arg = (DOMAIN incidents[d] # {})
       /\ \A d \in Range(registered) :
            (Processing(d) /\ run.pc \in {"alarm", "clear"} /\ Processing(d)') =>
                /\ incidents'[d] = incidents[d]
                /\ \A e \in ev'.flow : e.device # d]_vars

\* a run whose fetch gave nothing has called processAlerts of a device with
\* an open incident, and is about to set the alarm to true
C17_Witness ==
    /\ ev.calls = <<[device |-> T00, alerts |-> << >>]>>
    /\ A1.incidents \in DOMAIN incidents[T00]
    /\ run.pc = "alarm"
    /\ run.arg

\* --------------------------------------------------- failures in a batch
\* C18 (as claimed): when a write fails while processAlerts handles one
\* alert of a batch, processAlerts goes on with the same batch: the run is
\* next at a later alert of the batch or, when none is left to act on, at
\* the write of the alarm of the same device.
C18_FailureConfined ==
    [][(run.pc \in {"store", "message", "cstore"} /\ run' # run) =>
        /\ run'.pc # "idle"
        /\ run'.devices = run.devices
        /\ run'.idx = run.idx
        /\ LET d == run.devices[run.idx]
               rest == FirstActing(incidents[d], run.testMode, run.alerts)
           IN \/ run'.pc = "message" /\ run'.alert = run.alert
              \/ rest = << >> /\ run'.pc = "alarm"
              \/ rest # << >> /\ run'.alert = Head(rest)
                              /\ run'.pc \in {"store", "cstore"}]_vars

\* ------------------------------------------------- registry and test mode
\* C19 (as claimed): while the run is inside processAlerts of a device, the
\* registry of that device is written by steps of the run only.
C19_RunOwnsRegistry ==
    [][\A d \in Range(registered) :
        (Processing(d) /\ incidents'[d] # incidents[d]) =>
            /\ run' # run
            /\ ~(\E x \in AllDevices : OnSettings(x))]_vars

\* C20 (as claimed): a change of test_mode empties the registry, sets the
\* alarm to false and clears the message, and nothing that was fetched from
\* the source the device subscribed to before the change enters the registry
\* afterwards: an incident is stored only from the list of the source that
\* test_mode names at that moment.
C20_ModeChange ==
    [][/\ \A d \in AllDevices : OnSettings(d) => incidents'[d] = NoIncidents
       /\ SettingsAlarmReturns(TRUE) => ~alarm_generic'[settings.device]
       /\ SettingsMessageReturns(TRUE) => message'[settings.device] = NULL
       /\ (run'.pc = "store" /\ run' # run) =>
            run'.testMode = test_mode'[run'.devices[run'.idx]]]_vars

\* -------------------------------------------------------- dropped requests
\* SpecBreaker where every pending timer fires in the end and every fetch
\* and capability write that is out returns in the end; stream messages and
\* the user's actions come or do not come
FairSpecPipeline ==
    /\ SpecBreaker
    /\ WF_vars(AppStart)
    /\ WF_vars(DebounceTimerFires)
    /\ WF_vars(EnableTimerFires)
    /\ WF_vars(CircuitResets)
    /\ WF_vars(FetchCompletes \/ FetchThrows)
    /\ WF_vars(\E ok \in BOOLEAN : AlarmReturns(ok))
    /\ WF_vars(\E ok \in BOOLEAN : ClearReturns(ok))

\* C21 (as claimed): a request that is turned away because a run is
\* executing is followed, with no further message or user action needed, by
\* the start of a run.
C21_DroppedRequestRetried ==
    (ev.skipped /\ fetchInProgress /\ ~apiCircuitOpen) ~> ev.fetch

\* ------------------------------------------------------------ reconnection
\* SpecReconcile where a pending reconnect timer fires in the end
FairSpecReconcile ==
    /\ SpecReconcile
    /\ \A t \in SSETypes : WF_vars(ReconnectTimerFires(t))

\* the last step created an EventSource for source t
Opened(t) == \E k \in DOMAIN ev.sse : ev.sse[k] = <<"new", t>>

\* a step that calls setupSSEConnections or checkSSEHealth
Reconciling ==
    \/ AppStart
    \/ \E d \in AllDevices : OnAdded(d) \/ OnDeleted(d)
    \/ SettingsAlarmReturns(FALSE)
    \/ \E ok \in BOOLEAN : SettingsMessageReturns(ok)
    \/ HealthCheck

\* C22 (as claimed): while the reconnect timer of a source is pending, a
\* connection of that source is created by the callback of that timer only.
C22_OnlyTheTimerReconnects ==
    [][\A t \in SSETypes :
        (sse[t].reconnectTimer /\ Opened(t)') => ReconnectTimerFires(t)]_vars

\* C22 (amended): onerror creates no connection, it only schedules; while
\* the reconnect timer of a source is pending a connection of that source is
\* created by the callback of that timer, by a reconciliation or by a
\* health check that recycles, and by nothing else; the callback creates a
\* connection iff the source is needed when it runs; and a pending timer is
\* followed by a new connection of the source or by the source being no
\* longer needed.
C22_Reconnection ==
    /\ [][\A t \in SSETypes :
            /\ OnError(t) =>
                  /\ ~Opened(t)'
                  /\ sse'[t].eventSource
                  /\ sse'[t].handles = sse[t].handles
                  /\ sse'[t].createdAt = sse[t].createdAt
                  /\ sse'[t].connected = sse[t].connected
                  /\ sse'[t].reconnectTimer
            /\ (sse[t].reconnectTimer /\ Opened(t)') =>
                  (ReconnectTimerFires(t) \/ Reconciling)
            /\ ReconnectTimerFires(t) =>
                  (Opened(t)' <=>
                      Needed(getDeviceEndpointNeeds(driverReady, registered,
                                                    test_mode), t))]_vars
    /\ \A t \in SSETypes :
            sse[t].reconnectTimer ~>
                \/ Opened(t)
                \/ ~Needed(getDeviceEndpointNeeds(driverReady, registered,
                                                  test_mode), t)

\* the reconnect timer of a failed stream has fired and, the source being
\* needed, has created a new connection
C22_Witness ==
    \E t \in SSETypes :
        /\ ev.sse = << <<"close", t>>, <<"new", t>> >>
        /\ sse[t].retryCount > 0
        /\ ~sse[t].reconnectTimer
        /\ sse[t].createdAt = 0
        /\ ~sse[t].connected
        /\ ~ev.fetch
        /\ ~ev.skipped
        /\ ev.debounce = "none"

\* ------------------------------------------------------------------ order
\* C23 (as claimed): the processAlerts calls of a run are made in the order
\* of the registry, and when processAlerts has stored an Alert and triggered
\* its card and the next alert of the batch is the Cancel of the same
\* incident, still open, the "cancelled" card is triggered next and the
\* incident leaves the registry.
C23_AlertThenCancel ==
    [][/\ \A j, k \in DOMAIN ev'.calls :
            j < k => \E a, b \in DOMAIN registered :
                        /\ a < b
                        /\ registered[a] = ev'.calls[j].device
                        /\ registered[b] = ev'.calls[k].device
       /\ (/\ run.pc = "message"
           /\ run' # run
           /\ run.alerts # << >>
           /\ Head(run.alerts).msgType = "Cancel"
           /\ Head(run.alerts).incidents = run.alert.incidents
           /\ run.alert.incidents \in DOMAIN incidents[run.devices[run.idx]]) =>
              /\ Triggered(run.devices[run.idx], run.alert) \in ev'.flow
              /\ \E e \in ev'.flow :
                    /\ e.card = "cancelled"
                    /\ e.device = run.devices[run.idx]
                    /\ e.incident = run.alert.incidents
              /\ run.alert.incidents
                    \notin DOMAIN incidents'[run.devices[run.idx]]]_vars

\* ------------------------------------------------------ alarm and message
\* the step ends processAlerts of device d
Leaving(d) == Processing(d) /\ ~Processing(d)'

\* C24 (as claimed): when processAlerts of a device has ended, the alarm of
\* the device is true iff its registry is not empty, and its message is null
\* if the registry is empty.
C24_AlarmFollowsRegistry ==
    [][\A d \in Range(registered) :
        Leaving(d) =>
            /\ alarm_generic'[d] <=> DOMAIN incidents'[d] # {}
            /\ DOMAIN incidents'[d] = {} => message'[d] = NULL]_vars

\* ------------------------------------------------------------ stream message
\* C25: a message on a stream leaves the stream connected and changes nothing
\* else of either stream (handle, reconnect timer, retry count); when its
\* payload parses, exactly one debounce timeout is pending afterwards, set or
\* reset by the step; when it does not parse, the debounce timeout is as it
\* was; in both cases no fetch is started by the step.
C25_Message ==
    [][\A t \in SSETypes, parses \in BOOLEAN :
        OnMessage(t, parses) =>
            /\ sse'[t].connected
            /\ sse' = [sse EXCEPT ![t].connected = TRUE]
            /\ sse'[t].eventSource /\ sse'[t].handles = sse[t].handles
            /\ sse'[t].reconnectTimer = sse[t].reconnectTimer
            /\ sse'[t].timers = sse[t].timers
            /\ ev'.sse = << >>
            /\ ~ev'.fetch /\ run' = run /\ fetchInProgress' = fetchInProgress
            /\ parses => /\ fetchDebounceTimer' /\ debounceTimers' = 1
                         /\ ev'.debounce = (IF fetchDebounceTimer THEN "reset" ELSE "set")
            /\ ~parses => /\ fetchDebounceTimer' = fetchDebounceTimer
                          /\ debounceTimers' = debounceTimers
                          /\ ev'.debounce = "none"]_vars

\* a message has reset the pending debounce timeout on a stream that is
\* connected and keeps its handle
C25_Witness ==
    \E t \in SSETypes :
        /\ ev.debounce = "reset"
        /\ ev.sse = << >>
        /\ sse[t].eventSource /\ sse[t].connected /\ ~sse[t].reconnectTimer
        /\ fetchDebounceTimer /\ debounceTimers = 1
        /\ run.pc = "idle"

\* ------------------------------------------------------- cancelled incidents
\* C26 (as claimed): when a run has fetched its lists and comes to a device,
\* an incident that a Cancel of an earlier run has deleted from the registry
\* of the device is not stored in that registry again, and no vma_trigger
\* card is triggered for it on that device again.
C26_NeverReopened ==
    [][FetchCompletes =>
        \A d \in Range(registered) : \A x \in closed[d] :
            /\ x \notin DOMAIN incidents'[d]
            /\ \A e \in ev'.flow :
                  ~(e.card = "triggered" /\ e.device = d /\ e.incident = x)]_vars

\* C27 (as claimed): whenever no run is executing, the vma_trigger card has
\* been triggered for every incident of a registry that has an AlertInfo to
\* show.
C27_OpenMeansNotified ==
    run.pc = "idle" =>
        \A d \in Range(registered) : \A x \in DOMAIN incidents[d] :
            getBestLanguageInfo(incidents[d][x].info) # << >> => x \in notified[d]

\* the text processAlerts writes to the message capability for alert a
Shown(a) == formatAlertMessage(Head(getBestLanguageInfo(a.info)), a.status)

\* C28 (as claimed): whenever neither a run nor a settings handler is
\* executing, a message that is not null is the formatted message of an
\* incident of the registry.
C28_MessageOfOpenIncident ==
    (run.pc = "idle" /\ settings.pc = "none") =>
        \A d \in Range(registered) :
            message[d] # NULL =>
                \E x \in DOMAIN incidents[d] :
                    /\ getBestLanguageInfo(incidents[d][x].info) # << >>
                    /\ message[d] = Shown(incidents[d][x])

\* ------------------------------------------------- reconciling connections
\* Devices "00" and "01" are paired, deleted and switched between the
\* production and the test source while the streams open, fail and are
\* reconnected; "00" is registered from the start.
InitTargets ==
    /\ InitApp({}, {T00, T01}, <<T00>>, {}, TRUE)
    /\ NoMatchInput

NextTargets ==
    \/ AppStart
    \/ \E d \in AllDevices : OnAdded(d)
    \/ \E d \in AllDevices : OnDeleted(d)
    \/ \E d \in AllDevices : OnSettings(d)
    \/ SettingsStored
    \/ \E ok \in BOOLEAN : SettingsAlarmReturns(ok)
    \/ \E ok \in BOOLEAN : SettingsMessageReturns(ok)
    \/ \E t \in SSETypes : OnOpen(t)
    \/ \E t \in SSETypes : sse[t].retryCount < MaxFailures /\ OnError(t)
    \/ \E t \in SSETypes : ReconnectTimerFires(t)

SpecTargets == InitTargets /\ [][NextTargets]_vars

\* the step is setupSSEConnections called after a device was added or
\* deleted or had its test mode changed
Reconciled ==
    \/ \E d \in AllDevices : OnAdded(d) \/ OnDeleted(d)
    \/ SettingsAlarmReturns(FALSE)
    \/ \E ok \in BOOLEAN : SettingsMessageReturns(ok)

NeededBefore(t) == Needed(getDeviceEndpointNeeds(driverReady, registered, test_mode), t)
NeededAfter(t) == Needed(getDeviceEndpointNeeds(driverReady', registered', test_mode'), t)
ClosedStream(t) == \E k \in DOMAIN ev.sse : ev.sse[k] = <<"close", t>>

\* C29 (as claimed): setupSSEConnections called after a device was added or
\* deleted or had its test mode changed leaves the handle, the connected flag
\* and the pending reconnect timer of a source as they were when the source
\* was needed before and is needed after; it opens a connection only for a
\* source that is needed and has no handle.
C29_ReconcileKeeps ==
    [][Reconciled =>
        \A t \in SSETypes :
            /\ (NeededBefore(t) /\ NeededAfter(t)) =>
                  /\ sse'[t].connected = sse[t].connected
                  /\ sse'[t].reconnectTimer = sse[t].reconnectTimer
                  /\ sse[t].eventSource =>
                        (sse'[t].eventSource /\ ~Opened(t)' /\ ~ClosedStream(t)')
            /\ Opened(t)' => (NeededAfter(t) /\ ~sse[t].eventSource)]_vars

\* C29 (amended): setupSSEConnections called after a device was added or
\* deleted or had its test mode changed closes the handle of every source
\* that has one; for a source that is needed after the change it then opens
\* a new connection, whether or not the source had one, so that the source
\* has exactly one handle, is not connected and has no reconnect timer
\* pending, its retry count being as before; for a source that is not needed
\* it opens nothing and leaves no handle and no timer.
C29_ReconcileRenews ==
    [][Reconciled =>
        \A t \in SSETypes :
            /\ sse[t].eventSource <=> ClosedStream(t)'
            /\ Opened(t)' <=> NeededAfter(t)
            /\ sse'[t].eventSource <=> NeededAfter(t)
            /\ sse'[t].handles = (IF NeededAfter(t) THEN 1 ELSE 0)
            /\ ~sse'[t].connected
            /\ ~sse'[t].reconnectTimer /\ sse'[t].timers = 0
            /\ sse'[t].retryCount = sse[t].retryCount]_vars

\* device "01" has just been added next to "00": the production stream, which
\* was needed before and is needed now, has been closed and opened anew and
\* is not connected
C29_Witness ==
    /\ registered = <<T00, T01>>
    /\ ~test_mode[T00] /\ ~test_mode[T01]
    /\ ev.sse = << <<"close", "production">>, <<"new", "production">> >>
    /\ sse["production"].eventSource /\ ~sse["production"].connected
    /\ sse["production"].createdAt = 0
    /\ settings.pc = "none"
    /\ incidents[T01] = NoIncidents /\ ~alarm_generic[T01] /\ message[T01] = NULL
    /\ ev.fetch \/ ev.skipped

====
